---- MODULE Spec2Model ----
(***************************************************************************)
(* A model of the lottery number analyzer/generator: DataHandler            *)
(* (core/data_handler.py), LotteryAnalyzer (core/analyzer.py),              *)
(* NumberSetGenerator (core/generator.py) and LotteryValidator              *)
(* (core/validator.py).                                                     *)
(*                                                                         *)
(* A DataFrame is a sequence of rows [label, nums]: label is the row's      *)
(* index label, nums the values of the columns n1..nk.  Row positions are    *)
(* 1-based here and 0-based in pandas.  Every name the modules use is taken *)
(* to resolve (pandas, numpy, sympy as documented).                         *)
(***************************************************************************)
EXTENDS Integers, Sequences, FiniteSets, TLC

VARIABLES
    cfg,          \* LotteryConfig (models/config.py)
    histFile,     \* rows of the CSV at config.data.historical_path
    upFile,       \* upcoming CSV: [given |-> upcoming_path is not blank, rows]
    latestFile,   \* rows of the CSV at config.data.latest_path (<<>>: missing/empty)
    dh,           \* DataHandler: historical, upcoming, latest_draw
    loadStatus,   \* "idle" | "ok" | "raised" : outcome of DataHandler.load_data
    an,           \* LotteryAnalyzer: [made, historical]
    freq,         \* last result of analyze_frequency: [status, val]
    rec,          \* last result of analyze_recency: [status, val]
    temp,         \* last result of classify_temperature: [status, val]
    cold,         \* last result of identify_cold_numbers: [status, val]
    gen,          \* NumberSetGenerator: [status, kind, num, den, computed]
    run,          \* generate_sets call: [status, sets, reported, hl_p, prime_options]
    val           \* last result of validate_against_historical

vars == <<cfg, histFile, upFile, latestFile, dh, loadStatus, an, freq, rec,
          temp, cold, gen, run, val>>

\* ---------------------------------------------------------------- bounds
MaxDraws == 2        \* rows of a historical table
MaxUpcoming == 1     \* rows of an upcoming file
MaxSets == 6         \* output.sets_to_generate ranges over 1..MaxSets
DirichletGrain == 1  \* the Dirichlet sample is a composition of this many units
MaxLongDraws == 3    \* rows of a historical table where whole windows matter

\* ---------------------------------------------------------------- helpers
RECURSIVE SumFn(_, _)
SumFn(f, S) == IF S = {} THEN 0
               ELSE LET x == CHOOSE y \in S : TRUE IN f[x] + SumFn(f, S \ {x})

Max2(a, b) == IF a >= b THEN a ELSE b
Min2(a, b) == IF a <= b THEN a ELSE b
MaxOf(S) == CHOOSE x \in S : \A y \in S : y <= x
Range(s) == {s[i] : i \in 1..Len(s)}

\* Strictly increasing sequences of k numbers out of lo..N.
RECURSIVE IncRows(_, _, _)
IncRows(lo, N, k) ==
    IF k = 0 THEN {<<>>}
    ELSE UNION {{<<a>> \o r : r \in IncRows(a + 1, N, k - 1)} : a \in lo..N}

\* The sorted list of a set of numbers (Python's sorted()).
RECURSIVE SortedSeq(_)
SortedSeq(S) == IF S = {} THEN <<>>
                ELSE LET m == CHOOSE x \in S : \A y \in S : x <= y
                     IN <<m>> \o SortedSeq(S \ {m})

SeqsUpTo(S, n) == UNION {[1..m -> S] : m \in 1..n}

\* ---------------------------------------------------------------- configuration
\* (number_pool, numbers_to_select) pairs the model runs with
PoolConfigs == {[N |-> 3, k |-> 2], [N |-> 7, k |-> 7]}

\* (frequency_weight, recent_weight, random_weight) in tenths
WeightFactors == {<<0, 0, 0>>, <<4, 2, 4>>}

\* (hot, warm, cold) of analysis.recency_bins
RecencyBins == {<<1, 2, 3>>, <<1, 2, 1>>, <<0, 2, 3>>}

\* Candidate configurations, before LotteryConfig validates them.
RawConfigs ==
    {[N |-> p.N, k |-> p.k, low_number_max |-> lm, sets_to_generate |-> s,
      frequency_weight |-> w[1], recent_weight |-> w[2], random_weight |-> w[3],
      test_draws |-> td, alert_threshold |-> 2, merge_upcoming |-> mu,
      hot |-> b[1], warm |-> b[2], cold |-> b[3], cold_threshold |-> ct] :
        p \in PoolConfigs, lm \in {1, 3}, s \in 1..MaxSets,
        w \in WeightFactors, td \in {1, 2}, mu \in BOOLEAN,
        b \in RecencyBins, ct \in {1, 3}}

\* The constraints of the pydantic models: conint(gt=0), conint(gt=1),
\* confloat(ge=0, le=1) (factors in tenths), conint(ge=1, le=6).  The three
\* recency bins are constrained one by one, not against each other.
ConfigAccepted(c) ==
    /\ c.N > 1 /\ c.k > 1
    /\ c.frequency_weight \in 0..10 /\ c.recent_weight \in 0..10
    /\ c.random_weight \in 0..10
    /\ c.low_number_max > 0 /\ c.cold_threshold > 0
    /\ c.hot > 0 /\ c.warm > 0 /\ c.cold > 0
    /\ c.test_draws > 0 /\ c.alert_threshold \in 1..6
    /\ c.sets_to_generate > 0

\* The configurations LotteryConfig(...) accepts.
Configs == {c \in RawConfigs : ConfigAccepted(c)}

number_pool(c) == 1..c.N
number_cols(c) == 1..c.k

\* ---------------------------------------------------------------- data frames
Row(label, nums) == [label |-> label, nums |-> nums]

\* pd.read_csv: a fresh frame has the RangeIndex 0..n-1 as labels
ReadCsv(rows) == [i \in 1..Len(rows) |-> Row(i - 1, rows[i])]

\* pd.concat([a, b]) keeps each frame's own labels
Concat(a, b) == a \o b

NoFrame == [isNone |-> TRUE, rows |-> <<>>]
Frame(rows) == [isNone |-> FALSE, rows |-> rows]

ValidRows(c) == IncRows(1, c.N, c.k)
ValidTables(c) == SeqsUpTo(ValidRows(c), MaxDraws)

\* A table with the first cell of row i overwritten by v: out of range (0, N+1)
\* or equal to the row's second cell (a number twice in one row).
Corrupt(t, i, v) == [t EXCEPT ![i] = [@ EXCEPT ![1] = v]]
CorruptTables(c) ==
    UNION {UNION {{Corrupt(t, i, v) : v \in {0, c.N + 1, t[i][2]}} :
                  i \in 1..Len(t)} : t \in ValidTables(c)}

RowInRange(c, r) == \A j \in 1..Len(r) : r[j] >= 1 /\ r[j] <= c.N
RowDistinct(r) == \A i, j \in 1..Len(r) : i # j => r[i] # r[j]

\* ---------------------------------------------------------------- DataHandler
\* _validate_data: raises ValueError iff some number column holds a value
\* outside 1..number_pool.
ValidateRaises(c, frame) ==
    \E col \in number_cols(c) : \E i \in 1..Len(frame) :
        frame[i].nums[col] < 1 \/ frame[i].nums[col] > c.N

\* _load_historical: read_csv raises EmptyDataError on an empty file, before
\* self.historical is assigned; otherwise self.historical is assigned and
\* then validated.
LoadHistorical(c, d, rows) ==
    IF rows = <<>> THEN [d |-> d, raised |-> TRUE]
    ELSE [d |-> [d EXCEPT !.historical = Frame(ReadCsv(rows))],
          raised |-> ValidateRaises(c, ReadCsv(rows))]

\* _load_upcoming: nothing when upcoming_path is blank or the file is not
\* found (rows = <<>>); self.upcoming is assigned before validation; merged
\* into historical when merge_upcoming.
LoadUpcoming(c, d, up) ==
    IF ~up.given THEN [d |-> d, raised |-> FALSE]
    ELSE IF up.rows = <<>> THEN [d |-> d, raised |-> FALSE]
    ELSE LET f == ReadCsv(up.rows)
             d1 == [d EXCEPT !.upcoming = Frame(f)]
         IN IF ValidateRaises(c, f) THEN [d |-> d1, raised |-> TRUE]
            ELSE IF c.merge_upcoming
                 THEN [d |-> [d1 EXCEPT !.historical =
                                 Frame(Concat(d.historical.rows, f))],
                       raised |-> FALSE]
                 ELSE [d |-> d1, raised |-> FALSE]

\* _load_latest: latest_draw = last row of the file, when there is one.
LoadLatest(c, d, rows) ==
    IF rows = <<>> THEN [d |-> d, raised |-> FALSE]
    ELSE LET f == ReadCsv(rows)
         IN IF ValidateRaises(c, f) THEN [d |-> d, raised |-> TRUE]
            ELSE [d |-> [d EXCEPT !.latest_draw = Frame(<<f[Len(f)]>>)],
                  raised |-> FALSE]

\* load_data: the three loads in order, stopping at the first that raises.
LoadDataResult(c, d, hist, up, latest) ==
    LET r1 == LoadHistorical(c, d, hist)
    IN IF r1.raised THEN r1
       ELSE LET r2 == LoadUpcoming(c, r1.d, up)
            IN IF r2.raised THEN r2 ELSE LoadLatest(c, r2.d, latest)

load_data ==
    /\ loadStatus = "idle"
    /\ LET r == LoadDataResult(cfg, dh, histFile, upFile, latestFile)
       IN /\ dh' = r.d
          /\ loadStatus' = IF r.raised THEN "raised" ELSE "ok"
    /\ UNCHANGED <<cfg, histFile, upFile, latestFile, an, freq, rec, temp, cold, gen,
                   run, val>>

\* ---------------------------------------------------------------- LotteryAnalyzer
\* LotteryAnalyzer(data_handler.historical, config), as cli.main builds it
\* once load_data has returned.
AnalyzerInit ==
    /\ loadStatus = "ok"
    /\ ~an.made
    /\ an' = [made |-> TRUE, historical |-> dh.historical.rows]
    /\ UNCHANGED <<cfg, histFile, upFile, latestFile, dh, loadStatus, freq, rec,
                   temp, cold, gen, run, val>>

\* Mutant of Flatten: only the first number column is read.
FlattenFirstColumn(frame) == [i \in 1..Len(frame) |-> frame[i].nums[1]]

\* historical[number_cols].values.flatten(): every cell, row by row
RECURSIVE Flatten(_)
Flatten(frame) ==
    IF frame = <<>> THEN <<>> ELSE Head(frame).nums \o Flatten(Tail(frame))

\* pd.Series(cells).value_counts(): one entry per value that occurs
ValueCounts(cells) ==
    [n \in Range(cells) |-> Cardinality({i \in 1..Len(cells) : cells[i] = n})]

\* analyze_frequency: value_counts().sort_index() of the flattened cells
AnalyzeFrequency(frame) == ValueCounts(Flatten(frame))

analyze_frequency ==
    /\ an.made
    /\ freq' = [status |-> "ok", val |-> AnalyzeFrequency(an.historical)]
    /\ UNCHANGED <<cfg, histFile, upFile, latestFile, dh, loadStatus, an, rec,
                   temp, cold, gen, run, val>>

\* rows (positions) whose number columns hold num: the boolean mask
MaskRows(frame, num) ==
    {i \in 1..Len(frame) : \E col \in 1..Len(frame[i].nums) : frame[i].nums[col] = num}

\* Index.is_monotonic_increasing of the frame's labels
IsMonotonic(frame) ==
    \A i \in 1..(Len(frame) - 1) : frame[i].label <= frame[i + 1].label

\* historical.index.get_loc(label): the 0-based position when the label occurs
\* once; with a repeated label a slice (monotonic index) or a boolean mask.
GetLoc(frame, label) ==
    LET at == {i \in 1..Len(frame) : frame[i].label = label}
    IN IF Cardinality(at) = 1
       THEN [kind |-> "int", pos |-> (CHOOSE i \in at : TRUE) - 1, mask |-> <<>>]
       ELSE IF IsMonotonic(frame)
            THEN [kind |-> "slice", pos |-> 0, mask |-> <<>>]
            ELSE [kind |-> "mask", pos |-> 0,
                  mask |-> [i \in 1..Len(frame) |-> IF i \in at THEN 1 ELSE 0]]

\* One pass of the loop body of analyze_recency for num.
\*   no row holds num: index.max() of an empty index is NaN, get_loc raises KeyError;
\*   get_loc gives a slice: total_draws - slice raises TypeError;
\*   get_loc gives a mask: total_draws - mask - 1 is an array, one entry per row.
RecencyOf(frame, num) ==
    LET rows == MaskRows(frame, num)
        total_draws == Len(frame)
    IN IF rows = {} THEN [kind |-> "raise", v |-> 0, a |-> <<>>]
       ELSE LET last_occurrence == MaxOf({frame[i].label : i \in rows})
                loc == GetLoc(frame, last_occurrence)
            IN CASE loc.kind = "int" ->
                      [kind |-> "int", v |-> total_draws - loc.pos - 1, a |-> <<>>]
                 [] loc.kind = "slice" -> [kind |-> "raise", v |-> 0, a |-> <<>>]
                 [] OTHER ->
                      [kind |-> "array", v |-> 0,
                       a |-> [i \in 1..Len(frame) |-> total_draws - loc.mask[i] - 1]]

\* analyze_recency: the loop over number_pool; any raise ends the call.
AnalyzeRecency(c, frame) ==
    LET r == [num \in number_pool(c) |-> RecencyOf(frame, num)]
    IN IF \E num \in number_pool(c) : r[num].kind = "raise"
       THEN [status |-> "raised", val |-> <<>>]
       ELSE [status |-> "ok", val |-> r]

analyze_recency ==
    /\ an.made
    /\ rec' = AnalyzeRecency(cfg, an.historical)
    /\ UNCHANGED <<cfg, histFile, upFile, latestFile, dh, loadStatus, an, freq,
                   temp, cold, gen, run, val>>

\* classify_temperature: analyze_recency's raise propagates; comparing an array
\* recency inside `if` raises ValueError (ambiguous truth value).
ClassifyTemperature(c, frame) ==
    LET r == AnalyzeRecency(c, frame)
    IN IF r.status = "raised" \/ \E n \in number_pool(c) : r.val[n].kind = "array"
       THEN [status |-> "raised", val |-> <<>>]
       ELSE [status |-> "ok",
             val |-> [hot |-> {n \in number_pool(c) : r.val[n].v <= c.hot},
                      warm |-> {n \in number_pool(c) :
                                  c.hot < r.val[n].v /\ r.val[n].v <= c.warm},
                      cold |-> {n \in number_pool(c) : r.val[n].v > c.cold}]]

classify_temperature ==
    /\ an.made
    /\ temp' = ClassifyTemperature(cfg, an.historical)
    /\ UNCHANGED <<cfg, histFile, upFile, latestFile, dh, loadStatus, an, freq,
                   rec, cold, gen, run, val>>

\* identify_cold_numbers: historical.iloc[-cold_threshold:] is the last
\* cold_threshold rows, or every row when the table has fewer; it never raises.
IdentifyColdNumbers(c, frame) ==
    LET first == Max2(1, Len(frame) - c.cold_threshold + 1)
        last_n_draws == Flatten(SubSeq(frame, first, Len(frame)))
    IN [status |-> "ok", val |-> number_pool(c) \ Range(last_n_draws)]

identify_cold_numbers ==
    /\ an.made
    /\ cold' = IdentifyColdNumbers(cfg, an.historical)
    /\ UNCHANGED <<cfg, histFile, upFile, latestFile, dh, loadStatus, an, freq,
                   rec, temp, gen, run, val>>

\* _get_prime_numbers
IsPrime(n) == n > 1 /\ \A d \in 2..(n - 1) : n % d # 0
prime_numbers(c) == {n \in number_pool(c) : IsPrime(n)}

\* ---------------------------------------------------------------- NumberSetGenerator
\* _calculate_recent_counts: value_counts of historical.iloc[-int(len*0.2):]
\* reindexed to number_pool with 0 for the missing.  iloc[-0:] is the whole frame.
RecentDraws(frame) ==
    LET w == (Len(frame) * 2) \div 10
    IN IF w = 0 THEN frame ELSE SubSeq(frame, Len(frame) - w + 1, Len(frame))

CalculateRecentCounts(c, frame) ==
    LET vc == ValueCounts(Flatten(RecentDraws(frame)))
    IN [n \in number_pool(c) |-> IF n \in DOMAIN vc THEN vc[n] ELSE 0]

\* np.random.dirichlet(np.ones(N)): a random composition of 1 over the N
\* positions, here in units of 1/DirichletGrain.
DirichletSamples(c) ==
    {d \in [0..(c.N - 1) -> 0..DirichletGrain] : SumFn(d, 0..(c.N - 1)) = DirichletGrain}

\* What `weights += <Series>` leaves bound to weights: the ndarray itself
\* (pandas returns `out`) or a Series wrapping it (pandas before 1.4 wraps the
\* result with the operand's index).
WeightKinds == {"ndarray", "Series"}

\* _calculate_initial_weights.  weights is positional (0..N-1).  freq holds
\* only the numbers that occur, so `weights += freq_weights * ...` raises
\* ValueError (shapes (N,) and (M,)) unless every pool number occurs; then the
\* i-th smallest number's share lands on position i-1.  The entries are kept
\* as numerators over the common denominator 100 * F * R * DirichletGrain:
\*   1 + freq/F * fw * 10 + recent/R * rw * 5 + dirichlet * 0.7 * randw * 15
\* with the factors in tenths; the last step divides by weights.sum().
\* computed counts the runs of this method (and so the Dirichlet draws) on
\* the generator.
CalculateInitialWeights(c, frame, dir, kind) ==
    LET freqS == AnalyzeFrequency(frame)
        recent == CalculateRecentCounts(c, frame)
        order == SortedSeq(DOMAIN freqS)
        F == SumFn(freqS, DOMAIN freqS)
        R == SumFn(recent, number_pool(c))
        one == 100 * F * R * DirichletGrain
        raw == [p \in 0..(c.N - 1) |->
                   one
                   + freqS[order[p + 1]] * c.frequency_weight * 100 * R * DirichletGrain
                   + recent[p + 1] * c.recent_weight * 50 * F * DirichletGrain
                   + dir[p] * c.random_weight * 105 * F * R]
    IN IF Len(order) # c.N
       THEN [status |-> "raised", kind |-> "none", num |-> <<>>, den |-> 0,
             computed |-> 1]
       ELSE [status |-> "ok", kind |-> kind, num |-> raw,
             den |-> SumFn(raw, 0..(c.N - 1)), computed |-> 1]

\* NumberSetGenerator(analyzer): __init__ computes self.weights once.
GeneratorInit ==
    /\ an.made
    /\ gen.status = "none"
    /\ \E dir \in DirichletSamples(cfg), kind \in WeightKinds :
          gen' = CalculateInitialWeights(cfg, an.historical, dir, kind)
    /\ UNCHANGED <<cfg, histFile, upFile, latestFile, dh, loadStatus, an, freq,
                   rec, temp, cold, run, val>>

\* np.random.choice(population, size, replace=False, p=...): with every p > 0
\* any size-subset can come out; raises ValueError when size is negative, when
\* size exceeds the population, or when the population is empty and size > 0.
ChoiceRaises(population, size) == size < 0 \/ size > Cardinality(population)
Choice(population, size) == {S \in SUBSET population : Cardinality(S) = size}

\* self.weights[nums]: by position on an ndarray (IndexError when a number is
\* not a position 0..N-1), by label on a Series.
WeightsIndexRaises(c, g, nums) ==
    g.kind = "ndarray" /\ \E n \in nums : n \notin 0..(c.N - 1)

\* self.weights[nums] when it does not raise: the entry at position n on an
\* ndarray, the entry labelled n (position n - 1) on a Series.
WeightsAt(c, g, nums) ==
    IF WeightsIndexRaises(c, g, nums) THEN [status |-> "raised", val |-> <<>>]
    ELSE [status |-> "ok",
          val |-> [n \in nums |-> IF g.kind = "ndarray" THEN g.num[n] ELSE g.num[n - 1]]]

\* Outcome of a strategy call: the candidates it can return and whether it can raise.
Outcome(cands, raises) == [cands |-> cands, raises |-> raises]

\* _generate_weighted_random
GenerateWeightedRandom(c, g) ==
    IF ChoiceRaises(number_pool(c), c.k) THEN Outcome({}, TRUE)
    ELSE Outcome({SortedSeq(S) : S \in Choice(number_pool(c), c.k)}, FALSE)

\* The p arguments of _generate_high_low_mix, before the division by their
\* sum: low is evaluated first, high only once the low sample was drawn.
HighLowP(c, g) ==
    LET low_nums == {n \in number_pool(c) : n <= c.low_number_max}
        high_nums == {n \in number_pool(c) : n > c.low_number_max}
        low == WeightsAt(c, g, low_nums)
    IN [low |-> low,
        high |-> IF low.status = "ok" /\ ~ChoiceRaises(low_nums, c.k \div 2)
                 THEN WeightsAt(c, g, high_nums)
                 ELSE [status |-> "none", val |-> <<>>]]

\* Mutant of GenerateHighLowMix: with an empty high partition the whole set
\* is sampled from the low numbers instead of raising.
GenerateHighLowMixFallback(c, g) ==
    LET low_nums == {n \in number_pool(c) : n <= c.low_number_max}
        high_nums == {n \in number_pool(c) : n > c.low_number_max}
        split_point == IF high_nums = {} THEN c.k ELSE c.k \div 2
    IN IF \/ WeightsIndexRaises(c, g, low_nums)
          \/ ChoiceRaises(low_nums, split_point)
          \/ WeightsIndexRaises(c, g, high_nums)
          \/ ChoiceRaises(high_nums, c.k - split_point)
       THEN Outcome({}, TRUE)
       ELSE Outcome({SortedSeq(L \cup H) : L \in Choice(low_nums, split_point),
                                           H \in Choice(high_nums, c.k - split_point)},
                    FALSE)

\* _generate_high_low_mix
GenerateHighLowMix(c, g) ==
    LET low_nums == {n \in number_pool(c) : n <= c.low_number_max}
        high_nums == {n \in number_pool(c) : n > c.low_number_max}
        split_point == c.k \div 2
    IN IF \/ WeightsIndexRaises(c, g, low_nums)
          \/ ChoiceRaises(low_nums, split_point)
          \/ WeightsIndexRaises(c, g, high_nums)
          \/ ChoiceRaises(high_nums, c.k - split_point)
       THEN Outcome({}, TRUE)
       ELSE Outcome({SortedSeq(L \cup H) : L \in Choice(low_nums, split_point),
                                           H \in Choice(high_nums, c.k - split_point)},
                    FALSE)

\* Mutant of PrimeCountList: the first option is a third of the primes
\* rounded up.
PrimeCountListCeil(c) ==
    LET P == Cardinality(prime_numbers(c))
    IN <<Max2(1, (P + 2) \div 3), P \div 2, P \div 2 + 1>>

\* The list of three prime-count options np.random.choice picks from.
PrimeCountList(c) ==
    LET P == Cardinality(prime_numbers(c))
    IN <<Max2(1, P \div 3), P \div 2, P \div 2 + 1>>

PrimeCountOptions(c) == Range(PrimeCountList(c))

\* _generate_prime_balanced with the prime count num_primes
PrimeBalancedWith(c, g, num_primes) ==
    LET primes == prime_numbers(c)
        non_primes == number_pool(c) \ primes
    IN IF \/ WeightsIndexRaises(c, g, primes)
          \/ ChoiceRaises(primes, num_primes)
          \/ WeightsIndexRaises(c, g, non_primes)
          \/ ChoiceRaises(non_primes, c.k - num_primes)
       THEN Outcome({}, TRUE)
       ELSE Outcome({SortedSeq(A \cup B) : A \in Choice(primes, num_primes),
                                           B \in Choice(non_primes, c.k - num_primes)},
                    FALSE)

GeneratePrimeBalanced(c, g) ==
    LET outs == {PrimeBalancedWith(c, g, np) : np \in PrimeCountOptions(c)}
    IN Outcome(UNION {o.cands : o \in outs}, \E o \in outs : o.raises)

\* _is_valid_set
IsValidSet(c, numbers) ==
    /\ Len(numbers) = c.k
    /\ Cardinality(Range(numbers)) = c.k
    /\ \A i \in 1..Len(numbers) : 1 <= numbers[i] /\ numbers[i] <= c.N

Strategies == <<"weighted_random", "high_low_mix", "prime_balanced">>

StrategyOutcome(c, g, name) ==
    CASE name = "weighted_random" -> GenerateWeightedRandom(c, g)
      [] name = "high_low_mix" -> GenerateHighLowMix(c, g)
      [] OTHER -> GeneratePrimeBalanced(c, g)

Candidate(numbers, name) == [numbers |-> numbers, name |-> name]

\* Mutant of AttemptResults: the candidate starts as [], a raise is swallowed
\* and whatever is bound is appended without asking _is_valid_set.
AttemptResultsUnchecked(c, g, name) ==
    LET o == StrategyOutcome(c, g, name)
    IN {<<Candidate(x, name)>> : x \in o.cands}
       \cup (IF o.raises THEN {<<Candidate(<<>>, name)>>} ELSE {})

\* One pass of the inner loop body of generate_sets: what it appends to sets.
\* A raise is swallowed by `except Exception: continue`; a candidate is
\* appended only when _is_valid_set accepts it.
AttemptResults(c, g, name) ==
    LET o == StrategyOutcome(c, g, name)
    IN {<<Candidate(x, name)>> : x \in {y \in o.cands : IsValidSet(c, y)}}
       \cup (IF o.raises \/ \E y \in o.cands : ~IsValidSet(c, y) THEN {<<>>} ELSE {})

\* n passes of the inner loop for one strategy
RECURSIVE StrategyRuns(_, _, _, _)
StrategyRuns(c, g, name, n) ==
    IF n = 0 THEN {<<>>}
    ELSE {a \o b : a \in AttemptResults(c, g, name), b \in StrategyRuns(c, g, name, n - 1)}

SetsPerStrategy(c) == Max2(1, c.sets_to_generate \div Len(Strategies))

\* generate_sets: every list the call can return.  The list is all the call
\* hands back: it logs nothing and returns no count (reported stays empty), and
\* it reads self.weights as __init__ left it (gen is unchanged).  hl_p and
\* prime_options keep what the high/low and prime-balanced attempts of the
\* call computed; both are the same on every attempt.
GenerateSetsResults(c, g) ==
    LET n == SetsPerStrategy(c)
    IN {a \o b \o d : a \in StrategyRuns(c, g, Strategies[1], n),
                      b \in StrategyRuns(c, g, Strategies[2], n),
                      d \in StrategyRuns(c, g, Strategies[3], n)}

generate_sets ==
    /\ gen.status = "ok"
    /\ run.status = "idle"
    /\ \E sets \in GenerateSetsResults(cfg, gen) :
          run' = [status |-> "returned", sets |-> sets, reported |-> <<>>,
                  hl_p |-> HighLowP(cfg, gen),
                  prime_options |-> PrimeCountList(cfg)]
    /\ UNCHANGED <<cfg, histFile, upFile, latestFile, dh, loadStatus, an, freq,
                   rec, temp, cold, gen, val>>

\* ---------------------------------------------------------------- LotteryValidator
\* ValidationResult.match_counts has the keys 0..6
NumBuckets == 7
Buckets == 0..(NumBuckets - 1)

\* Mutant of TestWindow: the slice runs to the end of the table
\* (iloc[-test_draws:]), so the most recent draw is tested too.
TestWindowToEnd(c, frame) ==
    LET test_draws == Min2(c.test_draws, Len(frame) - 1)
    IN SubSeq(frame, Len(frame) - test_draws + 1, Len(frame))

\* test_data = historical.iloc[-test_draws-1:-1], as 1-based positions
TestWindow(c, frame) ==
    LET test_draws == Min2(c.test_draws, Len(frame) - 1)
    IN SubSeq(frame, Len(frame) - test_draws, Len(frame) - 1)

Matches(generated_set, draw) ==
    Cardinality(Range(generated_set) \cap Range(draw.nums))

\* best_match for one draw: the running maximum over the sets, from 0
RECURSIVE BestMatch(_, _)
BestMatch(sets, draw) ==
    IF sets = <<>> THEN 0
    ELSE Max2(Matches(Head(sets).numbers, draw), BestMatch(Tail(sets), draw))

\* the sets appended to high_performance_sets while one draw is processed
RECURSIVE HighPerformers(_, _, _)
HighPerformers(c, sets, draw) ==
    IF sets = <<>> THEN <<>>
    ELSE (IF Matches(Head(sets).numbers, draw) >= c.alert_threshold
          THEN <<Head(sets).numbers>> ELSE <<>>)
         \o HighPerformers(c, Tail(sets), draw)

RECURSIVE AllHighPerformers(_, _, _)
AllHighPerformers(c, sets, draws) ==
    IF draws = <<>> THEN <<>>
    ELSE HighPerformers(c, sets, Head(draws)) \o AllHighPerformers(c, sets, Tail(draws))

\* match_counts after the double loop: one increment per (draw, set) pair
MatchCounts(sets, draws) ==
    [b \in Buckets |->
        Cardinality({pr \in (1..Len(draws)) \X (1..Len(sets)) :
                        Matches(sets[pr[2]].numbers, draws[pr[1]]) = b})]

\* calculate_percentages: count / total * 100 to two decimals, kept as
\* hundredths of a percent rounded to nearest
Percentages(counts, total) ==
    [b \in Buckets |-> (counts[b] * 20000 + total) \div (2 * total)]

NoValidation ==
    [status |-> "none", draws_tested |-> 0, match_counts |-> <<>>,
     best_per_draw |-> <<>>, high_performance_sets |-> <<>>,
     match_percentages |-> <<>>, num_sets |-> 0, tested |-> <<>>]

\* validate_against_historical(sets).  match_counts[matches] += 1 raises
\* KeyError for matches outside 0..6; calculate_percentages divides by
\* num_sets * draws_tested and raises ZeroDivisionError when that is 0.
ValidateAgainstHistorical(c, frame, sets) ==
    LET test_data == TestWindow(c, frame)
        total_comparisons == Len(sets) * Len(test_data)
    IN IF \/ \E i \in 1..Len(test_data), j \in 1..Len(sets) :
                Matches(sets[j].numbers, test_data[i]) \notin Buckets
          \/ total_comparisons = 0
       THEN [NoValidation EXCEPT !.status = "raised", !.num_sets = Len(sets),
                                 !.draws_tested = Len(test_data),
                                 !.tested = test_data]
       ELSE [status |-> "ok",
             draws_tested |-> Len(test_data),
             match_counts |-> MatchCounts(sets, test_data),
             best_per_draw |-> [i \in 1..Len(test_data) |-> BestMatch(sets, test_data[i])],
             high_performance_sets |-> AllHighPerformers(c, sets, test_data),
             match_percentages |->
                 Percentages(MatchCounts(sets, test_data), total_comparisons),
             num_sets |-> Len(sets),
             tested |-> test_data]

validate_against_historical ==
    /\ run.status = "returned"
    /\ val.status = "none"
    /\ val' = ValidateAgainstHistorical(cfg, dh.historical.rows, run.sets)
    /\ UNCHANGED <<cfg, histFile, upFile, latestFile, dh, loadStatus, an, freq,
                   rec, temp, cold, gen, run>>

\* ---------------------------------------------------------------- specifications
NoResult == [status |-> "none", val |-> <<>>]
NoRun ==
    [status |-> "idle", sets |-> <<>>, reported |-> <<>>,
     hl_p |-> [low |-> NoResult, high |-> NoResult], prime_options |-> <<>>]
NoGenerator ==
    [status |-> "none", kind |-> "none", num |-> <<>>, den |-> 0, computed |-> 0]
NoDataHandler == [historical |-> NoFrame, upcoming |-> NoFrame, latest_draw |-> NoFrame]

UpcomingFiles(c) ==
    {[given |-> FALSE, rows |-> <<>>]}
    \cup {[given |-> TRUE, rows |-> t] : t \in SeqsUpTo(ValidRows(c), MaxUpcoming)}

\* Data specification: a fresh DataHandler over arbitrary files (valid tables
\* and tables with one bad cell), then the analyzer over what was loaded.
DataConfigs ==
    {c \in Configs : c.sets_to_generate = 1 /\ c.test_draws = 1
                     /\ c.low_number_max = 1 /\ c.frequency_weight = 0}

\* The historical files of the data specification.
DataTables(c) ==
    {<<>>} \cup SeqsUpTo(ValidRows(c), MaxLongDraws) \cup CorruptTables(c)

InitData ==
    /\ cfg \in DataConfigs
    /\ histFile \in DataTables(cfg)
    /\ upFile \in UpcomingFiles(cfg)
    /\ latestFile \in {<<>>, <<[i \in 1..cfg.k |-> i]>>}
    /\ dh = NoDataHandler
    /\ loadStatus = "idle"
    /\ an = [made |-> FALSE, historical |-> <<>>]
    /\ freq = NoResult /\ rec = NoResult /\ temp = NoResult /\ cold = NoResult
    /\ gen = NoGenerator
    /\ run = NoRun
    /\ val = NoValidation

NextData ==
    \/ load_data
    \/ AnalyzerInit
    \/ analyze_frequency
    \/ analyze_recency
    \/ classify_temperature
    \/ identify_cold_numbers

SpecData == InitData /\ [][NextData]_vars

\* Generation specification: starts where cli.main stands once load_data has
\* returned for a valid historical file and the analyzer is built over it.
GenConfigs ==
    {c \in Configs : ~c.merge_upcoming /\ c.cold_threshold = 1
                     /\ c.warm <= c.cold}

Init ==
    /\ cfg \in GenConfigs
    /\ histFile \in ValidTables(cfg)
    /\ upFile = [given |-> FALSE, rows |-> <<>>]
    /\ latestFile = <<>>
    /\ dh = [NoDataHandler EXCEPT !.historical = Frame(ReadCsv(histFile))]
    /\ loadStatus = "ok"
    /\ an = [made |-> TRUE, historical |-> ReadCsv(histFile)]
    /\ freq = NoResult /\ rec = NoResult /\ temp = NoResult /\ cold = NoResult
    /\ gen = NoGenerator
    /\ run = NoRun
    /\ val = NoValidation

Next ==
    \/ GeneratorInit
    \/ generate_sets
    \/ validate_against_historical

Spec == Init /\ [][Next]_vars

\* Validation specification: the same run over longer historical tables, one
\* configuration per pool and window size.
ValConfigs ==
    {c \in GenConfigs : c.sets_to_generate = 3 /\ c.low_number_max = 1
                        /\ c.frequency_weight = 4}

InitVal ==
    /\ cfg \in ValConfigs
    /\ histFile \in SeqsUpTo(ValidRows(cfg), MaxLongDraws)
    /\ upFile = [given |-> FALSE, rows |-> <<>>]
    /\ latestFile = <<>>
    /\ dh = [NoDataHandler EXCEPT !.historical = Frame(ReadCsv(histFile))]
    /\ loadStatus = "ok"
    /\ an = [made |-> TRUE, historical |-> ReadCsv(histFile)]
    /\ freq = NoResult /\ rec = NoResult /\ temp = NoResult /\ cold = NoResult
    /\ gen = NoGenerator
    /\ run = NoRun
    /\ val = NoValidation

SpecVal == InitVal /\ [][Next]_vars

\* ---------------------------------------------------------------- claims
Appears(frame, n) == \E i \in 1..Len(frame) : \E j \in 1..Len(frame[i].nums) : frame[i].nums[j] = n
Appearances(frame, n) ==
    Cardinality({pr \in (1..Len(frame)) \X number_cols(cfg) : frame[pr[1]].nums[pr[2]] = n})
CountLabelled(sets, name) == Cardinality({i \in 1..Len(sets) : sets[i].name = name})

\* C1: every candidate set generate_sets returns has exactly k entries, all
\* pairwise distinct and all within 1..N.
C1_ReturnedSetsValid ==
    run.status = "returned" =>
        \A i \in 1..Len(run.sets) :
            LET numbers == run.sets[i].numbers
            IN /\ Len(numbers) = cfg.k
               /\ \A a, b \in 1..Len(numbers) : a # b => numbers[a] # numbers[b]
               /\ \A a \in 1..Len(numbers) : numbers[a] \in 1..cfg.N

\* C1 witness: a returned list holding candidates of all three strategies.
C1_Witness ==
    /\ run.status = "returned"
    /\ \A s \in 1..Len(Strategies) : CountLabelled(run.sets, Strategies[s]) >= 1

\* C2: generate_sets returns exactly output.sets_to_generate candidate sets.
C2_ReturnsRequestedCount ==
    run.status = "returned" => Len(run.sets) = cfg.sets_to_generate

\* The low/high and prime/non-prime subsets are large enough for every
\* sub-sample size the strategies can ask for.
SubsetsLargeEnough(c) ==
    LET low == Cardinality({n \in 1..c.N : n <= c.low_number_max})
        P == Cardinality({n \in 1..c.N : IsPrime(n)})
    IN /\ low >= c.k \div 2
       /\ c.N - low >= c.k - c.k \div 2
       /\ \A np \in PrimeCountOptions(c) :
             np <= P /\ c.k - np >= 0 /\ c.k - np <= c.N - P

C4_WeightVectorPositiveNormalized ==
    gen.status # "none" =>
        /\ gen.status = "ok"
        /\ DOMAIN gen.num = 0..(cfg.N - 1)
        /\ \A p \in DOMAIN gen.num : gen.num[p] > 0 /\ gen.den > 0
        /\ SumFn(gen.num, DOMAIN gen.num) = gen.den

\* C5: after validate_against_historical on a non-empty list of candidates and
\* a non-empty test window, the match_counts buckets sum to
\* (tested draws) x (candidate sets), whatever k is.
C5_MatchCountsSum ==
    (val.status # "none" /\ val.draws_tested > 0 /\ val.num_sets > 0) =>
        /\ val.status = "ok"
        /\ SumFn(val.match_counts, DOMAIN val.match_counts)
              = val.draws_tested * val.num_sets

\* C6: the per-number frequency counts returned by analyze_frequency sum to
\* (number of draws) x k.
C6_FrequencySum ==
    freq.status = "ok" =>
        SumFn(freq.val, DOMAIN freq.val) = Len(an.historical) * cfg.k

\* C6 witness: analyze_frequency has run over two or more draws in which some
\* number occurs more than once.
C6_Witness ==
    /\ freq.status = "ok"
    /\ Len(an.historical) >= 2
    /\ \E n \in DOMAIN freq.val : freq.val[n] >= 2

\* C7: analyze_frequency yields, for every pool number, an entry equal to its
\* number of appearances; a number that never appears is present with 0.
C7_FrequencyForEveryPoolNumber ==
    freq.status = "ok" =>
        \A n \in 1..cfg.N :
            n \in DOMAIN freq.val /\ freq.val[n] = Appearances(an.historical, n)

\* number of draws after the last draw holding n
DrawsSinceLast(frame, n) ==
    Len(frame) - MaxOf({i \in 1..Len(frame) : \E j \in 1..Len(frame[i].nums) : frame[i].nums[j] = n})

\* C8: for every pool number that appears, analyze_recency returns the number
\* of draws after its most recent appearance, for every table load_data hands
\* over (merged upcoming draws included).
C8_RecencyCountsDrawsSinceLast ==
    rec.status = "ok" =>
        \A n \in 1..cfg.N :
            Appears(an.historical, n) =>
                /\ rec.val[n].kind = "int"
                /\ rec.val[n].v = DrawsSinceLast(an.historical, n)

\* C9: when some pool number never appears, analyze_recency completes and
\* gives it the total draw count, and classify_temperature completes too.
C9_NeverDrawnIsMaximallyStale ==
    (\E n \in 1..cfg.N : ~Appears(an.historical, n)) =>
        /\ rec.status # "none" =>
              /\ rec.status = "ok"
              /\ \A n \in 1..cfg.N :
                    ~Appears(an.historical, n) =>
                        rec.val[n].kind = "int" /\ rec.val[n].v = Len(an.historical)
        /\ temp.status # "none" => temp.status = "ok"

\* C10: loading fails whenever a historical row holds a number outside 1..N or
\* the same number twice, and then no historical table is left on the handler.
C10_BadRowFailsLoad ==
    (loadStatus # "idle"
       /\ \E i \in 1..Len(histFile) :
             ~RowInRange(cfg, histFile[i]) \/ ~RowDistinct(histFile[i])) =>
        loadStatus = "raised" /\ dh.historical.isNone

\* C11: validate_against_historical tests exactly the min(test_draws,
\* available draws - 1) draws that immediately precede the most recent draw,
\* in table order, never the most recent draw itself, and draws_tested is
\* that window size.
C11_TrailingWindowBeforeLatest ==
    val.status # "none" =>
        LET hist == dh.historical.rows
            w == IF cfg.test_draws <= Len(hist) - 1 THEN cfg.test_draws ELSE Len(hist) - 1
        IN /\ Len(val.tested) = w
           /\ \A i \in 1..w : val.tested[i] = hist[Len(hist) - 1 - w + i]
           /\ \A i \in 1..Len(val.tested) : val.tested[i].label # hist[Len(hist)].label
           /\ val.draws_tested = w

\* C11 witness: a validation whose window is cut by test_draws, not by the
\* table: test_draws is smaller than the draws available before the latest.
C11_Witness ==
    /\ val.status = "ok"
    /\ cfg.test_draws < Len(dh.historical.rows) - 1
    /\ val.draws_tested = cfg.test_draws

\* C12: a configuration whose recency bins violate hot <= warm <= cold is
\* rejected before any analysis runs, so no analysis classifies a number as
\* both warm and cold.
C12_UnorderedBinsRejected ==
    /\ an.made => (cfg.hot <= cfg.warm /\ cfg.warm <= cfg.cold)
    /\ temp.status = "ok" => temp.val.warm \cap temp.val.cold = {}

\* C16: with fewer draws than cold_threshold the cold-number computation
\* fails instead of returning a cold set over the draws available.
C16_ColdWindowNotClamped ==
    (cold.status # "none" /\ Len(an.historical) < cfg.cold_threshold) =>
        cold.status = "raised"

HighLowLabel == Strategies[2]
PrimeLabel == Strategies[3]
PrimesIn(numbers) == Cardinality({n \in Range(numbers) : IsPrime(n)})
LowIn(c, numbers) == Cardinality({n \in Range(numbers) : n <= c.low_number_max})

\* C13: with low_number_max >= N every high/low-mix attempt is discarded;
\* generate_sets still completes and returns valid candidates of the other two
\* strategies only, the weighted-random ones among them.
C13_EmptyHighPartitionDiscarded ==
    /\ (gen.status = "ok" /\ cfg.low_number_max >= cfg.N) =>
           GenerateSetsResults(cfg, gen) # {}
    /\ (run.status = "returned" /\ cfg.low_number_max >= cfg.N) =>
           /\ CountLabelled(run.sets, HighLowLabel) = 0
           /\ CountLabelled(run.sets, Strategies[1]) = SetsPerStrategy(cfg)
           /\ \A i \in 1..Len(run.sets) :
                 /\ run.sets[i].name \in {Strategies[1], PrimeLabel}
                 /\ IsValidSet(cfg, run.sets[i].numbers)

\* C13 witness: a call with an empty high partition that returned candidates
\* of both other strategies.
C13_Witness ==
    /\ run.status = "returned"
    /\ cfg.low_number_max >= cfg.N
    /\ CountLabelled(run.sets, Strategies[1]) >= 1
    /\ CountLabelled(run.sets, PrimeLabel) >= 1

\* C14: when attempts were discarded and generate_sets returns fewer sets
\* than requested, the call reports the short count to its caller.
C14_ShortfallReported ==
    (/\ run.status = "returned"
     /\ Len(run.sets) < Len(Strategies) * SetsPerStrategy(cfg)
     /\ Len(run.sets) < cfg.sets_to_generate) =>
        run.reported # <<>>

\* C15: every generate_sets call recomputes the weight vector, with a fresh
\* random draw, before it samples.
C15_WeightsRecomputedPerCall ==
    [][(run.status = "idle" /\ run'.status = "returned") =>
           gen'.computed = gen.computed + 1]_vars

C19_BestPerDrawIsMaxOverlap ==
    val.status # "none" =>
        /\ val.status = "ok"
        /\ Len(val.best_per_draw) = Len(val.tested)
        /\ \A i \in 1..Len(val.tested) :
              LET overlaps == {Cardinality(Range(run.sets[j].numbers)
                                           \cap Range(val.tested[i].nums)) :
                                   j \in 1..Len(run.sets)}
              IN /\ \A o \in overlaps : o <= val.best_per_draw[i]
                 /\ val.best_per_draw[i] \in overlaps \cup {0}
                 /\ overlaps = {} => val.best_per_draw[i] = 0
====
